---- MODULE Spec2Model ----
(***************************************************************************)
(* Laminator: oriented-sliding-window analysis                             *)
(* (src/laminator_analysis/laminator.py).                                  *)
(*                                                                         *)
(* Arrays are records with an explicit shape and a 0-based value map, so   *)
(* that numpy's slicing, shape and broadcasting rules are computed rather  *)
(* than assumed.  Coordinates returned by the contour tracer are carried   *)
(* doubled (2 * coordinate) so that half-pixel positions are integers and  *)
(* numpy's round-half-to-even is computed exactly.                         *)
(***************************************************************************)
EXTENDS Integers, Sequences, FiniteSets, TLC

VARIABLES pc, traced, contours, field, stack, window_size, slice_width,
          sample_rate, tasks, queue, running, done, order, angles, shared,
          profiles, err, padded, stack_padded, slice_positioned

vars == <<pc, traced, contours, field, stack, window_size, slice_width,
          sample_rate, tasks, queue, running, done, order, angles, shared,
          profiles, err, padded, stack_padded,
          slice_positioned>>

(***************************************************************************)
(* Bounds of the model                                                     *)
(***************************************************************************)
\* largest field / stack height and width explored by the crop checks
MaxDim == 3
\* largest window_size explored
MaxWindow == 2
\* most points the tracer returns (over all contours) in the contour runs
MaxTrace == 3
\* most contours the tracer returns
MaxContours == 2
\* most channels of the image stack
MaxChannels == 2
\* worker processes of a pool that are given tasks
NumWorkers == 2
\* largest sample_rate explored
MaxSampleRate == 2
\* most traced points (over all contours) in the pipeline runs
PipePoints == 3
\* the large window size explored
ProbeWindow == 6
\* largest number of rows of a table handed to a stage by its caller
MapRows == 3
\* columns of the image of those calls
MapCols == 3

(***************************************************************************)
(* Integer helpers                                                         *)
(***************************************************************************)
Min(a, b) == IF a < b THEN a ELSE b

Max(a, b) == IF a > b THEN a ELSE b

Abs(a) == IF a < 0 THEN 0 - a ELSE a

\* numpy's ndarray.round() on a non-negative coordinate given doubled:
\* round half to even
np_round(d2) ==
  IF d2 % 2 = 0 THEN d2 \div 2
  ELSE LET lo == (d2 - 1) \div 2 IN IF lo % 2 = 0 THEN lo ELSE lo + 1

\* Python's round(n / d) for n >= 0, d > 0: round half to even
py_round(n, d) ==
  LET q == n \div d
      r == n % d
  IN  IF 2 * r < d THEN q
      ELSE IF 2 * r > d THEN q + 1
      ELSE IF q % 2 = 0 THEN q ELSE q + 1

\* bounds <<lo, hi>> of the Python slice [start:stop] on an axis of length n:
\* a negative index counts from the end, both ends are clipped to the axis
slice_bounds(n, start, stop) ==
  LET norm(i) == IF i < 0 THEN Max(i + n, 0) ELSE Min(i, n)
      lo == norm(start)
  IN  <<lo, Max(norm(stop), lo)>>

(***************************************************************************)
(* Sequence helpers                                                        *)
(***************************************************************************)
RECURSIVE concat(_)
\* pd.concat of a list of tables, rows in list order
concat(tables) ==
  IF tables = <<>> THEN <<>> ELSE Head(tables) \o concat(Tail(tables))

RECURSIVE keep_rows(_, _, _)
\* the rows of t whose 1-based index is in the set keep, in their order
keep_rows(t, keep, i) ==
  IF i > Len(t) THEN <<>>
  ELSE (IF i \in keep THEN <<t[i]>> ELSE <<>>) \o keep_rows(t, keep, i + 1)

(***************************************************************************)
(* get_contour                                                             *)
(***************************************************************************)
\* contour.round().astype(int) followed by pd.DataFrame(...).assign(contour=i):
\* one row per traced point, the frame's index is the traced index
rounded_frame(contour, i) ==
  [k \in 1..Len(contour) |->
     [index |-> k - 1, y |-> np_round(contour[k].y2),
      x |-> np_round(contour[k].x2), contour |-> i]]

\* drop_duplicates(keep='last')
drop_duplicates_keep_last(df) ==
  LET same(a, b) == a.y = b.y /\ a.x = b.x /\ a.contour = b.contour
      keep == {k \in 1..Len(df) : \A j \in (k + 1)..Len(df) : ~same(df[j], df[k])}
  IN  keep_rows(df, keep, 1)

\* DataFrame.drop_duplicates(): compares the columns (not the index),
\* keeps the first row of each group of equal rows, keeps the row order
\* and keeps the index labels of the retained rows
drop_duplicates(df) ==
  LET same(a, b) == a.y = b.y /\ a.x = b.x /\ a.contour = b.contour
      keep == {k \in 1..Len(df) : \A j \in 1..(k - 1) : ~same(df[j], df[k])}
  IN  keep_rows(df, keep, 1)

\* df_tmp['position'] = df_tmp.index
assign_position(df) ==
  [k \in 1..Len(df) |->
     [y |-> df[k].y, x |-> df[k].x, contour |-> df[k].contour,
      position |-> df[k].index]]

\* the per-contour frames of the loop at lines 94-98
contour_frames(tr) ==
  [i \in 1..Len(tr) |-> assign_position(drop_duplicates(rounded_frame(tr[i], i - 1)))]

\* pd.concat raises ValueError on an empty list of frames
concat_raises(frames) == frames = <<>>

(***************************************************************************)
(* numpy arrays: 2-D [nr, nc, v] and 3-D [nr, nc, nch, v]                  *)
(***************************************************************************)
\* no array yet
NoArray == [nr |-> 0, nc |-> 0, v |-> <<>>]

NoStack == [nr |-> 0, nc |-> 0, nch |-> 0, v |-> <<>>]

\* np.zeros([nr, nc])
zeros2(nr, nc) ==
  [nr |-> nr, nc |-> nc, v |-> [p \in (0..(nr - 1)) \X (0..(nc - 1)) |-> 0]]

\* np.zeros([nr, nc, nch])
zeros3(nr, nc, nch) ==
  [nr |-> nr, nc |-> nc, nch |-> nch,
   v |-> [p \in (0..(nr - 1)) \X (0..(nc - 1)) \X (0..(nch - 1)) |-> 0]]

\* a[r0:r1, c0:c1]
slice2(a, r0, r1, c0, c1) ==
  LET rb == slice_bounds(a.nr, r0, r1)
      cb == slice_bounds(a.nc, c0, c1)
      n  == rb[2] - rb[1]
      m  == cb[2] - cb[1]
  IN  [nr |-> n, nc |-> m,
       v |-> [p \in (0..(n - 1)) \X (0..(m - 1)) |->
                a.v[<<rb[1] + p[1], cb[1] + p[2]>>]]]

\* a[r0:r1, c0:c1, ...]
slice3(a, r0, r1, c0, c1) ==
  LET rb == slice_bounds(a.nr, r0, r1)
      cb == slice_bounds(a.nc, c0, c1)
      n  == rb[2] - rb[1]
      m  == cb[2] - cb[1]
  IN  [nr |-> n, nc |-> m, nch |-> a.nch,
       v |-> [p \in (0..(n - 1)) \X (0..(m - 1)) \X (0..(a.nch - 1)) |->
                a.v[<<rb[1] + p[1], cb[1] + p[2], p[3]>>]]]

\* numpy broadcasts a source axis of length s onto a target axis of length t
broadcasts(s, t) == s = t \/ s = 1

\* a[r0:r1, c0:c1] = src; ok is FALSE when numpy raises ValueError
\* (could not broadcast input array)
assign2(a, r0, r1, c0, c1, src) ==
  LET rb == slice_bounds(a.nr, r0, r1)
      cb == slice_bounds(a.nc, c0, c1)
      ok == /\ broadcasts(src.nr, rb[2] - rb[1])
            /\ broadcasts(src.nc, cb[2] - cb[1])
      at(p) == <<IF src.nr = 1 THEN 0 ELSE p[1] - rb[1],
                 IF src.nc = 1 THEN 0 ELSE p[2] - cb[1]>>
      inside(p) == /\ rb[1] <= p[1] /\ p[1] < rb[2]
                   /\ cb[1] <= p[2] /\ p[2] < cb[2]
  IN  [ok |-> ok,
       a |-> IF ok
             THEN [a EXCEPT !.v = [p \in DOMAIN a.v |->
                                     IF inside(p) THEN src.v[at(p)] ELSE a.v[p]]]
             ELSE a]

\* a[r0:r1, c0:c1, ...] = src
assign3(a, r0, r1, c0, c1, src) ==
  LET rb == slice_bounds(a.nr, r0, r1)
      cb == slice_bounds(a.nc, c0, c1)
      ok == /\ broadcasts(src.nr, rb[2] - rb[1])
            /\ broadcasts(src.nc, cb[2] - cb[1])
            /\ broadcasts(src.nch, a.nch)
      at(p) == <<IF src.nr = 1 THEN 0 ELSE p[1] - rb[1],
                 IF src.nc = 1 THEN 0 ELSE p[2] - cb[1],
                 IF src.nch = 1 THEN 0 ELSE p[3]>>
      inside(p) == /\ rb[1] <= p[1] /\ p[1] < rb[2]
                   /\ cb[1] <= p[2] /\ p[2] < cb[2]
  IN  [ok |-> ok,
       a |-> IF ok
             THEN [a EXCEPT !.v = [p \in DOMAIN a.v |->
                                     IF inside(p) THEN src.v[at(p)] ELSE a.v[p]]]
             ELSE a]

\* the candidate angles of the model: the right angles inside the
\* optimizer's bounds [(-180, 180)], for which the rotation is exact
Angles == {0 - 180, 0 - 90, 0, 90, 180}

\* quarter turns counter-clockwise of an angle of Angles
quarter_turns(angle) == ((angle \div 90) + 4) % 4

\* source cell of output cell (r, c) of a square of side n turned k quarter
\* turns counter-clockwise about its centre
turned(n, k, r, c) ==
  IF k = 0 THEN <<r, c>>
  ELSE IF k = 1 THEN <<c, n - 1 - r>>
  ELSE IF k = 2 THEN <<n - 1 - r, n - 1 - c>>
  ELSE <<n - 1 - c, r>>

\* skimage.transform.rotate(img, angle) of a square 2-D image: same shape,
\* counter-clockwise about the centre
rotate2(img, angle) ==
  [img EXCEPT !.v = [p \in DOMAIN img.v |->
                       img.v[turned(img.nr, quarter_turns(angle), p[1], p[2])]]]

\* skimage.transform.rotate of a square multichannel image, channel by channel
rotate3(img, angle) ==
  [img EXCEPT !.v = [p \in DOMAIN img.v |->
                       LET q == turned(img.nr, quarter_turns(angle), p[1], p[2])
                       IN  img.v[<<q[1], q[2], p[3]>>]]]

RECURSIVE sum_over(_, _)
\* the sum of f over the finite set S
sum_over(f, S) ==
  IF S = {} THEN 0
  ELSE LET p == CHOOSE q \in S : TRUE IN f[p] + sum_over(f, S \ {p})

(***************************************************************************)
(* assess_rotation and get_angle                                           *)
(***************************************************************************)
\* scale=(10, 2), the default of assess_rotation
scale_y == 10

scale_x == 2

\* the probe with range_y taken as a number of rows
probe_range_y_rows(rotated_img, w, sw) ==
  LET range_y == py_round(w, scale_y) + w
      range_x == py_round(sw, scale_x)
  IN  slice2(rotated_img, w, w + range_y, w - range_x, w + range_x)

\* the probe rectangle of assess_rotation (lines 116-120): rows
\* [window_size : range_y], columns [window_size - range_x : window_size + range_x]
probe(rotated_img, w, sw) ==
  LET range_y == py_round(w, scale_y) + w
      range_x == py_round(sw, scale_x)
  IN  slice2(rotated_img, w, range_y, w - range_x, w + range_x)

\* assess_rotation(angle, img, window_size, slice_width)
assess_rotation(angle, img, w, sw) ==
  LET p == probe(rotate2(img, angle), w, sw)
  IN  sum_over(p.v, DOMAIN p.v) * (0 - 1)

\* optimize.minimize(assess_rotation, x0=0, bounds=[(-180, 180)]) over the
\* candidate angles: the start value when no candidate scores lower
minimize(img, w, sw) ==
  LET best(a) == \A b \in Angles : assess_rotation(a, img, w, sw) <= assess_rotation(b, img, w, sw)
  IN  IF best(0) THEN 0 ELSE CHOOSE a \in Angles : best(a)

\* offset without np.absolute: the signed shortfall
offset_signed(v, w) == IF v - w < 0 THEN v - w ELSE 0

\* np.where(v - window_size < 0, np.absolute(v - window_size), 0), lines 156-160
offset(v, w) == IF v - w < 0 THEN Abs(v - w) ELSE 0

\* line 163: the crop of the distance field around (x, y)
cropped(dt, x, y, w, xo, yo) == slice2(dt, y - w + yo, y + w, x - w + xo, x + w)

\* the copy placed at the buffer's origin instead of at the offsets
pad_at_origin(crop, w, xo, yo) ==
  assign2(zeros2(2 * w, 2 * w), 0, crop.nr, 0, crop.nc, crop)

\* lines 165-166: the zero buffer of side 2 * window_size and the copy into it
pad(crop, w, xo, yo) ==
  assign2(zeros2(2 * w, 2 * w), yo, crop.nr + yo, xo, crop.nc + xo, crop)

\* get_angle(x, y, position, contour, distance_transform, window_size,
\* slice_width): ok is FALSE when the call raises
get_angle(x, y, position, contour, dt, w, sw) ==
  LET xo  == offset(x, w)
      yo  == offset(y, w)
      buf == pad(cropped(dt, x, y, w, xo, yo), w, xo, yo)
  IN  [ok |-> buf.ok,
       padded |-> buf.a,
       row |-> [angle |-> IF buf.ok THEN minimize(buf.a, w, sw) ELSE 0,
                x |-> x, y |-> y, window_size |-> w, slice_width |-> sw,
                x_offset |-> xo, y_offset |-> yo, position |-> position,
                contour |-> contour]]

(***************************************************************************)
(* rotate_slice                                                            *)
(***************************************************************************)
\* the crop of the stack taken without the record's offsets
stack_crop_no_offset(st, x, y, xo, yo, w) == slice3(st, y - w, y + w, x - w, x + w)

\* line 277: the crop of the stack with the offsets given
stack_crop(st, x, y, xo, yo, w) == slice3(st, y - w + yo, y + w, x - w + xo, x + w)

\* lines 278-280
stack_pad(crop, w, xo, yo) ==
  assign3(zeros3(2 * w, 2 * w, crop.nch), yo, crop.nr + yo, xo, crop.nc + xo, crop)

\* the band taken one row too early
slice_band_early(rotated, w, sw) == slice3(rotated, w - 1, rotated.nr, w - sw, w + sw)

\* line 283: rotate(stack_padded, angle)[window_size:,
\*           window_size - slice_width:window_size + slice_width, ...]
slice_band(rotated, w, sw) == slice3(rotated, w, rotated.nr, w - sw, w + sw)

\* line 284: np.average(..., axis=1), an array of shape (rows, channels);
\* a mean is kept as <<sum, count>>
average_axis1(a) ==
  [nr |-> a.nr, nc |-> a.nch,
   v |-> [p \in (0..(a.nr - 1)) \X (0..(a.nch - 1)) |->
            <<sum_over([c \in 0..(a.nc - 1) |-> a.v[<<p[1], c, p[2]>>]], 0..(a.nc - 1)),
              a.nc>>]]

\* rotate_slice(angle, x, y, x_offset, y_offset, window_size, slice_width)
\* reading the stack st from the shared buffer
rotate_slice(st, angle, x, y, xo, yo, w, sw) ==
  LET buf == stack_pad(stack_crop(st, x, y, xo, yo, w), w, xo, yo)
  IN  [ok |-> buf.ok,
       stack_padded |-> buf.a,
       profile |-> IF buf.ok
                   THEN average_axis1(slice_band(rotate3(buf.a, angle), w, sw))
                   ELSE NoArray]

(***************************************************************************)
(* retrieve_slice                                                          *)
(***************************************************************************)
\* the scalar 1 as the source of a slice assignment
scalar_one == [nr |-> 1, nc |-> 1, v |-> [p \in {<<0, 0>>} |-> 1]]

\* lines 244-245: the local mask of side 2 * window_size, 1 on the rows from
\* window_size on and the columns [window_size - slice_width,
\* window_size + slice_width)
local_slice(w, sw) ==
  LET slice == zeros2(2 * w, 2 * w)
  IN  assign2(slice, w, slice.nr, w - sw, w + sw, scalar_one).a

\* line 248: the columns of the local mask left of the image
x_min(x, w) == IF x - w < 0 THEN (x - w) * (0 - 1) ELSE 0

\* the local mask kept whole on the right
x_max_whole(x, w, slice_nc, img_nc) == slice_nc

\* lines 249-250: the end of the columns of the local mask inside the image
x_max(x, w, slice_nc, img_nc) ==
  IF x + w > img_nc THEN slice_nc - (x + w - img_nc) ELSE slice_nc

\* line 251
y_min(y, w) == IF y - w < 0 THEN (y - w) * (0 - 1) ELSE 0

\* lines 252-253
y_max(y, w, slice_nr, img_nr) ==
  IF y + w > img_nr THEN slice_nr - (y + w - img_nr) ELSE slice_nr

\* np.where(a > 0, 1, 0)
where_positive(a) == [a EXCEPT !.v = [p \in DOMAIN a.v |-> IF a.v[p] > 0 THEN 1 ELSE 0]]

\* retrieve_slice(df_tmp, img) with the fields of the one row of df_tmp;
\* ok is FALSE when the placement of line 255 raises
retrieve_slice(angle, x, y, w, sw, img) ==
  LET slice   == rotate2(local_slice(w, sw), 0 - angle)
      xmin    == x_min(x, w)
      xmax    == x_max(x, w, slice.nc, img.nc)
      ymin    == y_min(y, w)
      ymax    == y_max(y, w, slice.nr, img.nr)
      clipped == slice2(slice, ymin, ymax, xmin, xmax)
      placed  == assign2(zeros2(img.nr, img.nc), y - w + ymin, y + w,
                         x - w + xmin, x + w, clipped)
  IN  [ok |-> placed.ok,
       clipped |-> clipped,
       slice_positioned |-> where_positive(placed.a)]

(***************************************************************************)
(* Inputs                                                                  *)
(***************************************************************************)
\* distance fields of h rows and w columns: distinct positive values, so
\* that every copied cell can be told from every other and from padding
field_inputs(h, w) ==
  {[nr |-> h, nc |-> w,
    v |-> [p \in (0..(h - 1)) \X (0..(w - 1)) |-> 1 + p[1] * w + p[2]]],
   [nr |-> h, nc |-> w,
    v |-> [p \in (0..(h - 1)) \X (0..(w - 1)) |-> h * w - (p[1] * w + p[2])]]}

\* the field of the pipeline runs: 2 rows and 2 columns, largest at the
\* bottom right
PipeField == CHOOSE f \in field_inputs(2, 2) : f.v[<<1, 1>>] = 4

\* <<window_size, slice_width>> of the pipeline runs
pipe_windows == {<<2, 1>>, <<ProbeWindow, 2>>}

\* image stacks of h rows, w columns and n channels, distinct positive values
stack_inputs(h, w, n) ==
  {[nr |-> h, nc |-> w, nch |-> n,
    v |-> [p \in (0..(h - 1)) \X (0..(w - 1)) \X (0..(n - 1)) |->
             1 + p[3] + n * (p[1] * w + p[2])]]}

\* points the tracer can return inside a field of h rows and w columns,
\* coordinates doubled: pixel centres and the half-pixel positions between
trace_points(h, w) == [y2 : 0..(2 * (h - 1)), x2 : 0..(2 * (w - 1))]

\* the points the tracer returns at level 0.5 on a 0/1 mask (the mask after
\* the default smoothing and re-thresholding, lines 83-86): midway between
\* two neighbouring pixels, so exactly one coordinate is a half
binary_trace_points(h, w) ==
  {p \in trace_points(h, w) : (p.y2 % 2) + (p.x2 % 2) = 1}

\* the tracer's points in the pipeline runs: of the half-pixel points of a
\* 0/1 mask of the size of PipeField, one for each pixel they round to (the
\* stages after get_contour see the rounded pixel only)
PipeGrid ==
  LET P == binary_trace_points(PipeField.nr, PipeField.nc)
      px(p) == <<np_round(p.y2), np_round(p.x2)>>
  IN  {CHOOSE p \in P : px(p) = yx : yx \in {px(q) : q \in P}}

\* the tracer's points in the contour runs: a field of 2 rows and 3 columns,
\* coordinates 0, 0.5, 1 down and 0, 0.5, 1, 1.5, 2 across
ContourGrid == trace_points(2, 3)

RECURSIVE split(_, _)
\* the sequence flat cut into contours after the places of cuts
split(flat, cuts) ==
  IF cuts = {} THEN <<flat>>
  ELSE LET c == CHOOSE k \in cuts : \A j \in cuts : k <= j
       IN  <<SubSeq(flat, 1, c)>> \o
           split(SubSeq(flat, c + 1, Len(flat)), {k - c : k \in cuts \ {c}})

\* the places at which a sequence of n points can be cut into at most
\* ncontours non-empty contours
cut_sets(n, ncontours) == {S \in SUBSET (1..(n - 1)) : Cardinality(S) < ncontours}

\* tr is something measure.find_contours can return: a list of at most
\* ncontours contours, each a non-empty sequence of points of P, npoints
\* points in all
traced_input(tr, P, ncontours, npoints) ==
  \/ tr = <<>>
  \/ \E n \in 1..npoints :
       \E flat \in [1..n -> P], cuts \in cut_sets(n, ncontours) :
         tr = split(flat, cuts)

\* window sizes explored: the small ones, and one large enough for the
\* probe rectangle of assess_rotation to have rows (round(6 / 10) = 1)
window_sizes == (1..MaxWindow) \cup {ProbeWindow}

\* slice widths explored for a window size: window_size >= slice_width > 0
slice_widths(w) == {sw \in 1..w : sw <= MaxWindow \/ sw = w}

(***************************************************************************)
(* The worker pool: Pool(...).starmap(f, zip(...))                         *)
(***************************************************************************)
Workers == 1..NumWorkers

Idle == [p \in Workers |-> 0]

\* the results in the order in which the workers finished
starmap_unordered(results, completion, n) == [i \in 1..n |-> results[completion[i]]]

\* the list pool.starmap returns once every task has a result: the result
\* of task i at place i
starmap(results, completion, n) == [i \in 1..n |-> results[i]]

\* the exception of a task is swallowed in the worker
task_raised_swallowed(results) == FALSE

\* a task raised: starmap re-raises it in the parent
task_raised(results) == \E i \in DOMAIN results : ~results[i].ok

\* what a worker computes for task t in the pool of the stage
run_task(t) ==
  IF pc = "angle_pool"
  THEN LET r == get_angle(t.x, t.y, t.position, t.contour, field, window_size, slice_width)
       IN  [ok |-> r.ok, row |-> r.row]
  ELSE LET r == rotate_slice(shared, t.angle, t.x, t.y, t.x_offset, t.y_offset,
                             t.window_size, t.slice_width)
       IN  [ok |-> r.ok, profile |-> r.profile]

\* a free worker takes the next task from the pool's task queue
worker_take(p) ==
  /\ pc \in {"angle_pool", "slice_pool"}
  /\ running[p] = 0
  /\ queue # <<>>
  /\ running' = [running EXCEPT ![p] = Head(queue)]
  /\ queue' = Tail(queue)
  /\ UNCHANGED <<pc, traced, contours, field, stack, window_size, slice_width,
                 sample_rate, tasks, done, order, angles, shared, profiles, err,
                 padded, stack_padded,
                 slice_positioned>>

\* a task that clears the buffer behind itself
buffer_cleared_by_task(buf) == [buf EXCEPT !.v = [c \in DOMAIN buf.v |-> 0]]

\* the shared buffer after a task ran on it. get_angle never sees the
\* buffer; rotate_slice wraps it with np.frombuffer (no copy), takes a
\* crop that is a view and only reads it: stack_padded, the rotated stack and
\* the average are new arrays, so no store reaches the buffer
buffer_after_task(buf) == buf

\* a worker finishes its task and hands the result back under the task's index
worker_finish(p) ==
  /\ pc \in {"angle_pool", "slice_pool"}
  /\ running[p] # 0
  /\ done' = (running[p] :> run_task(tasks[running[p]])) @@ done
  /\ order' = Append(order, running[p])
  /\ running' = [running EXCEPT ![p] = 0]
  /\ shared' = buffer_after_task(shared)
  /\ UNCHANGED <<pc, traced, contours, field, stack, window_size, slice_width,
                 sample_rate, tasks, queue, angles, profiles, err,
                 padded, stack_padded,
                 slice_positioned>>

\* the map is over: every task has its result
map_done == queue = <<>> /\ running = Idle /\ DOMAIN done = 1..Len(tasks)

\* pool.starmap hands control back to the parent: with the list once every
\* task has its result, with the exception of a task that raised either
\* then or, in the library versions that do not wait for the other tasks,
\* as soon as it arrives; leaving the with block terminates the workers
starmap_returns == map_done \/ task_raised(done)

(***************************************************************************)
(* calculate_angles                                                        *)
(***************************************************************************)
\* every s-th row counted from the s-th: rows s-1, 2s-1, ...
iloc_step_late(df, s) == [i \in 1..(Len(df) \div s) |-> df[i * s]]

\* contours.iloc[::sample_rate, :]: rows 0, s, 2s, ... by position
iloc_step(df, s) ==
  [i \in 1..((Len(df) + s - 1) \div s) |-> df[(i - 1) * s + 1]]

\* the rows numbered from 1
assign_window_from_one(rows) ==
  [i \in 1..Len(rows) |->
     [angle |-> rows[i].angle, x |-> rows[i].x, y |-> rows[i].y,
      window_size |-> rows[i].window_size, slice_width |-> rows[i].slice_width,
      x_offset |-> rows[i].x_offset, y_offset |-> rows[i].y_offset,
      position |-> rows[i].position, contour |-> rows[i].contour,
      window |-> i]]

\* result.assign(window=range(0, len(result)))
assign_window(rows) ==
  [i \in 1..Len(rows) |->
     [angle |-> rows[i].angle, x |-> rows[i].x, y |-> rows[i].y,
      window_size |-> rows[i].window_size, slice_width |-> rows[i].slice_width,
      x_offset |-> rows[i].x_offset, y_offset |-> rows[i].y_offset,
      position |-> rows[i].position, contour |-> rows[i].contour,
      window |-> i - 1]]

\* lines 190-198: subsample, start the pool, submit one task per row
calculate_angles_map ==
  /\ pc = "contoured"
  /\ LET rows == iloc_step(contours, sample_rate)
     IN  /\ tasks' = [i \in 1..Len(rows) |->
                        [x |-> rows[i].x, y |-> rows[i].y,
                         position |-> rows[i].position, contour |-> rows[i].contour]]
         /\ queue' = [i \in 1..Len(rows) |-> i]
  /\ running' = Idle
  /\ done' = <<>>
  /\ order' = <<>>
  /\ pc' = "angle_pool"
  /\ UNCHANGED <<traced, contours, field, stack, window_size, slice_width,
                 sample_rate, angles, shared, profiles, err, padded, stack_padded,
                 slice_positioned>>

\* lines 196-202: starmap returns, the rows are concatenated and numbered
calculate_angles_collect ==
  /\ pc = "angle_pool"
  /\ starmap_returns
  /\ LET result == starmap(done, order, Len(tasks))
     IN  IF task_raised(done) \/ concat_raises(result)
         THEN /\ pc' = "raised"
              /\ err' = "calculate_angles"
              /\ angles' = angles
         ELSE /\ pc' = "angled"
              /\ err' = err
              /\ angles' = assign_window([i \in 1..Len(result) |-> result[i].row])
  /\ UNCHANGED <<traced, contours, field, stack, window_size, slice_width,
                 sample_rate, tasks, queue, running, done, order, shared,
                 profiles, padded, stack_padded,
                 slice_positioned>>

(***************************************************************************)
(* rotate_slices                                                           *)
(***************************************************************************)
\* np.dstack raises ValueError on an empty list and on arrays of
\* different shapes
dstack_raises(arrays) ==
  \/ arrays = <<>>
  \/ \E i, j \in 1..Len(arrays) :
       arrays[i].nr # arrays[j].nr \/ arrays[i].nc # arrays[j].nc

\* lines 322-327: np.dstack(result) has shape (rows, channels, windows);
\* MultiIndex.from_product over its shape names the cells of
\* results.flatten() in row-major order
profile_table(arrays) ==
  LET n  == Len(arrays)
      nr == arrays[1].nr
      nc == arrays[1].nc
  IN  [i \in 1..(nr * nc * n) |->
         LET j == i - 1
             r == j \div (nc * n)
             c == (j \div n) % nc
             k == j % n
         IN  [radial_position |-> r, stain |-> c, window |-> k,
              intensity |-> arrays[k + 1].v[<<r, c>>]]]

\* lines 303-319: copy the stack into the shared buffer, start the pool
\* (init_worker hands the buffer to every worker), submit one task per row
rotate_slices_map ==
  /\ pc = "angled"
  /\ shared' = stack
  /\ tasks' = [i \in 1..Len(angles) |->
                 [angle |-> angles[i].angle, x |-> angles[i].x, y |-> angles[i].y,
                  x_offset |-> angles[i].x_offset, y_offset |-> angles[i].y_offset,
                  window_size |-> angles[i].window_size,
                  slice_width |-> angles[i].slice_width]]
  /\ queue' = [i \in 1..Len(angles) |-> i]
  /\ running' = Idle
  /\ done' = <<>>
  /\ order' = <<>>
  /\ pc' = "slice_pool"
  /\ UNCHANGED <<traced, contours, field, stack, window_size, slice_width,
                 sample_rate, angles, profiles, err, padded, stack_padded,
                 slice_positioned>>

\* lines 313-329: starmap returns, the profiles are stacked and tabulated
rotate_slices_collect ==
  /\ pc = "slice_pool"
  /\ starmap_returns
  /\ LET result == starmap(done, order, Len(tasks))
         arrays == [i \in 1..Len(result) |-> result[i].profile]
     IN  IF task_raised(done) \/ dstack_raises(arrays)
         THEN /\ pc' = "raised"
              /\ err' = "rotate_slices"
              /\ profiles' = profiles
         ELSE /\ pc' = "done"
              /\ err' = err
              /\ profiles' = profile_table(arrays)
  /\ UNCHANGED <<traced, contours, field, stack, window_size, slice_width,
                 sample_rate, tasks, queue, running, done, order, angles, shared,
                 padded, stack_padded,
                 slice_positioned>>

(***************************************************************************)
(* get_contour                                                             *)
(***************************************************************************)
\* get_contour(mask) from the traced contours on (lines 89-101)
get_contour ==
  /\ pc = "start"
  /\ LET frames == contour_frames(traced)
     IN  IF concat_raises(frames)
         THEN /\ pc' = "raised"
              /\ err' = "get_contour"
              /\ contours' = contours
         ELSE /\ pc' = "contoured"
              /\ err' = err
              /\ contours' = concat(frames)
  /\ UNCHANGED <<traced, field, stack, window_size, slice_width, sample_rate,
                 tasks, queue, running, done, order, angles, shared, profiles,
                 padded, stack_padded,
                 slice_positioned>>

(***************************************************************************)
(* The pipeline: get_contour, calculate_angles, rotate_slices              *)
(***************************************************************************)
\* a run starts at get_contour with what the tracer returns, or at
\* calculate_angles or rotate_slices called with a table of zero rows
Init ==
  /\ traced_input(traced, PipeGrid, MaxContours, PipePoints)
  /\ pc \in IF traced = <<>> THEN {"start", "contoured", "angled"} ELSE {"start"}
  /\ contours = <<>>
  /\ field = PipeField
  /\ stack \in stack_inputs(field.nr, field.nc, MaxChannels)
  /\ \E ws \in pipe_windows : window_size = ws[1] /\ slice_width = ws[2]
  /\ sample_rate \in 1..MaxSampleRate
  /\ tasks = <<>>
  /\ queue = <<>>
  /\ running = Idle
  /\ done = <<>>
  /\ order = <<>>
  /\ angles = <<>>
  /\ shared = NoStack
  /\ profiles = <<>>
  /\ err = "none"
  /\ padded = NoArray
  /\ stack_padded = NoStack
  /\ slice_positioned = NoArray

Next ==
  \/ get_contour
  \/ calculate_angles_map
  \/ calculate_angles_collect
  \/ rotate_slices_map
  \/ rotate_slices_collect
  \/ \E p \in Workers : worker_take(p)
  \/ \E p \in Workers : worker_finish(p)

Spec == Init /\ [][Next]_vars

(***************************************************************************)
(* The contour extractor run on its own over every traced input            *)
(***************************************************************************)
InitContour ==
  /\ pc = "start"
  /\ traced_input(traced, ContourGrid, MaxContours, MaxTrace)
  /\ contours = <<>>
  /\ field = NoArray
  /\ stack = NoStack
  /\ window_size = 1
  /\ slice_width = 1
  /\ sample_rate = 1
  /\ tasks = <<>>
  /\ queue = <<>>
  /\ running = Idle
  /\ done = <<>>
  /\ order = <<>>
  /\ angles = <<>>
  /\ shared = NoStack
  /\ profiles = <<>>
  /\ err = "none"
  /\ padded = NoArray
  /\ stack_padded = NoStack
  /\ slice_positioned = NoArray

SpecContour == InitContour /\ [][get_contour]_vars

(***************************************************************************)
(* get_angle, rotate_slice and retrieve_slice called on one point, over    *)
(* every field size, window size and point of the field                    *)
(***************************************************************************)
InitCrop ==
  /\ pc = "get_angle"
  /\ traced = <<>>
  /\ contours = <<>>
  /\ \E h \in 1..MaxDim, w \in 1..MaxDim :
       /\ field \in field_inputs(h, w)
       /\ \E n \in 1..MaxChannels : stack \in stack_inputs(h, w, n)
       /\ tasks \in {<<[x |-> x, y |-> y, position |-> 0, contour |-> 0]>> :
                       x \in 0..(w - 1), y \in 0..(h - 1)}
  /\ shared = stack
  /\ window_size \in window_sizes
  /\ slice_width \in slice_widths(window_size)
  /\ sample_rate = 1
  /\ queue = <<>>
  /\ running = Idle
  /\ done = <<>>
  /\ order = <<>>
  /\ angles = <<>>
  /\ profiles = <<>>
  /\ err = "none"
  /\ padded = NoArray
  /\ stack_padded = NoStack
  /\ slice_positioned = NoArray

\* one call of get_angle; the padded buffer it built is kept for inspection
call_get_angle ==
  /\ pc = "get_angle"
  /\ LET t == tasks[1]
         r == get_angle(t.x, t.y, t.position, t.contour, field, window_size, slice_width)
     IN  IF r.ok
         THEN /\ pc' = "rotate_slice"
              /\ err' = err
              /\ padded' = r.padded
              /\ angles' = <<r.row>>
         ELSE /\ pc' = "raised"
              /\ err' = "get_angle"
              /\ padded' = padded
              /\ angles' = angles
  /\ UNCHANGED <<traced, contours, field, stack, window_size, slice_width,
                 sample_rate, tasks, queue, running, done, order, shared,
                 profiles, stack_padded,
                 slice_positioned>>

\* one call of rotate_slice with the fields of the Angle Record
call_rotate_slice ==
  /\ pc = "rotate_slice"
  /\ LET a == angles[1]
         r == rotate_slice(shared, a.angle, a.x, a.y, a.x_offset, a.y_offset,
                           a.window_size, a.slice_width)
     IN  IF r.ok
         THEN /\ pc' = "sliced"
              /\ err' = err
              /\ stack_padded' = r.stack_padded
              /\ done' = (1 :> [ok |-> TRUE, profile |-> r.profile])
         ELSE /\ pc' = "raised"
              /\ err' = "rotate_slice"
              /\ stack_padded' = stack_padded
              /\ done' = done
  /\ UNCHANGED <<traced, contours, field, stack, window_size, slice_width,
                 sample_rate, tasks, queue, running, order, angles, shared,
                 profiles, padded,
                 slice_positioned>>

\* one call of retrieve_slice with the fields of the Angle Record, on an
\* image of the shape of the field
call_retrieve_slice ==
  /\ pc = "sliced"
  /\ LET a == angles[1]
         r == retrieve_slice(a.angle, a.x, a.y, a.window_size, a.slice_width, field)
     IN  IF r.ok
         THEN /\ pc' = "retrieved"
              /\ err' = err
              /\ slice_positioned' = r.slice_positioned
         ELSE /\ pc' = "raised"
              /\ err' = "retrieve_slice"
              /\ slice_positioned' = slice_positioned
  /\ UNCHANGED <<traced, contours, field, stack, window_size, slice_width,
                 sample_rate, tasks, queue, running, done, order, angles, shared,
                 profiles, padded, stack_padded>>

NextCrop == call_get_angle \/ call_rotate_slice \/ call_retrieve_slice

SpecCrop == InitCrop /\ [][NextCrop]_vars

(***************************************************************************)
(* calculate_angles and rotate_slices called with a table of the caller,   *)
(* rows with a coordinate outside the image included                       *)
(***************************************************************************)
\* x coordinates of the rows: the first and the last column of the image and
\* a column left of it by more than the window, for which the crop
\* dt[..., x - w + x_offset : x + w] ends at a negative stop and no longer
\* fits the padded buffer
map_rows_x(w, ncols) == {0, ncols - 1, 0 - (w + 1)}

\* the contour table of n rows with the x coordinates xs
contour_table(xs, n) ==
  [i \in 1..n |-> [y |-> 0, x |-> xs[i], contour |-> 0, position |-> i - 1]]

\* the angle table of n rows with the x coordinates xs, offsets as get_angle
\* records them
angle_table(xs, n, w, sw) ==
  [i \in 1..n |->
     [angle |-> 0, x |-> xs[i], y |-> 0, window_size |-> w, slice_width |-> sw,
      x_offset |-> offset(xs[i], w), y_offset |-> offset(0, w),
      position |-> i - 1, contour |-> 0, window |-> i - 1]]

InitMap ==
  /\ traced = <<>>
  /\ field \in field_inputs(1, MapCols)
  /\ stack \in stack_inputs(1, MapCols, MaxChannels)
  /\ window_size = MaxWindow
  /\ slice_width = 1
  /\ sample_rate = 1
  /\ \E n \in 1..MapRows : \E xs \in [1..n -> map_rows_x(window_size, MapCols)] :
       \/ /\ pc = "contoured"
          /\ contours = contour_table(xs, n)
          /\ angles = <<>>
       \/ /\ pc = "angled"
          /\ contours = <<>>
          /\ angles = angle_table(xs, n, window_size, slice_width)
  /\ tasks = <<>>
  /\ queue = <<>>
  /\ running = Idle
  /\ done = <<>>
  /\ order = <<>>
  /\ shared = NoStack
  /\ profiles = <<>>
  /\ err = "none"
  /\ padded = NoArray
  /\ stack_padded = NoStack
  /\ slice_positioned = NoArray

NextMap ==
  \/ calculate_angles_map
  \/ calculate_angles_collect
  \/ rotate_slices_map
  \/ rotate_slices_collect
  \/ \E p \in Workers : worker_take(p)
  \/ \E p \in Workers : worker_finish(p)

SpecMap == InitMap /\ [][NextMap]_vars

(***************************************************************************)
(* Properties of get_angle and rotate_slice on one point (SpecCrop)        *)
(***************************************************************************)
\* (row, col) lies inside an array of the shape of a
in_bounds(a, row, col) == 0 <= row /\ row < a.nr /\ 0 <= col /\ col < a.nc

\* C1: for every point inside the distance field and every window_size,
\* get_angle's padded buffer has shape (2w, 2w), the copy of the crop into it
\* does not raise, cell (r, c) holds the field value at (y - w + r, x - w + c)
\* when that coordinate is inside the field and 0 otherwise, and cell (w, w)
\* is the contour point itself.
C1_PaddedBuffer ==
  pc # "get_angle" =>
    LET t == tasks[1]
        w == window_size
    IN  /\ err # "get_angle"
        /\ padded.nr = 2 * w
        /\ padded.nc = 2 * w
        /\ \A r \in 0..(2 * w - 1), c \in 0..(2 * w - 1) :
             padded.v[<<r, c>>] =
               IF in_bounds(field, t.y - w + r, t.x - w + c)
               THEN field.v[<<t.y - w + r, t.x - w + c>>]
               ELSE 0
        /\ padded.v[<<w, w>>] = field.v[<<t.y, t.x>>]

\* C1 witness: get_angle has returned for a point whose window overhangs the
\* low edge in x and the high edge in y
C1_Witness ==
  /\ pc = "rotate_slice"
  /\ tasks[1].x < window_size
  /\ tasks[1].y >= window_size
  /\ tasks[1].y + window_size > field.nr
  /\ padded.nr = 2 * window_size

\* C2: in every Angle Record x_offset = max(0, window_size - x) and
\* y_offset = max(0, window_size - y); both are >= 0, both are 0 for a fully
\* interior point, and x_offset = window_size exactly when x = 0 (50 for
\* window_size = 50).
C2_Offsets ==
  /\ \A i \in 1..Len(angles) :
       LET a == angles[i]
           w == a.window_size
       IN  /\ a.x_offset = Max(0, w - a.x)
           /\ a.y_offset = Max(0, w - a.y)
           /\ a.x_offset >= 0
           /\ a.y_offset >= 0
           /\ (a.x >= w /\ a.y >= w /\ a.x + w <= field.nc /\ a.y + w <= field.nr)
                => (a.x_offset = 0 /\ a.y_offset = 0)
           /\ (a.x_offset = w) <=> (a.x = 0)
  /\ offset(0, 50) = 50

\* C2 witness: an Angle Record of a point on the left edge, below the top
\* window: x_offset is the whole window_size and y_offset is 0
C2_Witness ==
  /\ Len(angles) = 1
  /\ angles[1].x = 0
  /\ angles[1].x_offset = angles[1].window_size
  /\ angles[1].y >= angles[1].window_size
  /\ angles[1].y_offset = 0

\* C3: with a stack of the field's height and width, rotate_slice (using the
\* record's stored offsets) crops the same rows and columns as get_angle did
\* and places them at the same position of the 2w buffer: the two buffers
\* have the same footprint, and every cell of it holds the stack's values at
\* the pixel whose field value get_angle put there.
C3_SameCrop ==
  /\ err # "rotate_slice"
  /\ pc = "sliced" =>
       LET a == angles[1]
           w == a.window_size
       IN  /\ stack_padded.nr = padded.nr
           /\ stack_padded.nc = padded.nc
           /\ \A r \in 0..(2 * w - 1), c \in 0..(2 * w - 1), ch \in 0..(stack.nch - 1) :
                /\ (stack_padded.v[<<r, c, ch>>] # 0) <=> (padded.v[<<r, c>>] # 0)
                /\ padded.v[<<r, c>>] # 0 =>
                     /\ padded.v[<<r, c>>] = field.v[<<a.y - w + r, a.x - w + c>>]
                     /\ stack_padded.v[<<r, c, ch>>] = stack.v[<<a.y - w + r, a.x - w + c, ch>>]

\* C3 witness: rotate_slice has returned for a record with both offsets
\* positive whose window also overhangs the high edges
C3_Witness ==
  /\ pc = "sliced"
  /\ angles[1].x_offset > 0
  /\ angles[1].y_offset > 0
  /\ angles[1].x + angles[1].window_size > stack.nc
  /\ angles[1].y + angles[1].window_size > stack.nr
  /\ stack.nr = field.nr
  /\ stack.nc = field.nc

(***************************************************************************)
(* Properties of the pipeline (Spec)                                       *)
(***************************************************************************)
\* the profile rotate_slice computes for an Angle Record or task a
profile_of(a) ==
  rotate_slice(shared, a.angle, a.x, a.y, a.x_offset, a.y_offset,
               a.window_size, a.slice_width).profile

\* C4: for every window_index and every channel of the table rotate_slices
\* returns, the radial_position values are exactly 0 .. window_size-1, each
\* once, none out of range; the table has window_size * channels * N rows
\* for N Angle Records.
C4_ProfileLength ==
  pc = "done" =>
    /\ Len(profiles) = window_size * stack.nch * Len(angles)
    /\ \A i \in 1..Len(profiles) : profiles[i].radial_position \in 0..(window_size - 1)
    /\ \A k \in 0..(Len(angles) - 1), ch \in 0..(stack.nch - 1), r \in 0..(window_size - 1) :
         Cardinality({i \in 1..Len(profiles) :
                        /\ profiles[i].window = k
                        /\ profiles[i].stain = ch
                        /\ profiles[i].radial_position = r}) = 1

\* C4 witness: a returned table for several Angle Records and a window of
\* more than one radial position
C4_Witness ==
  /\ pc = "done"
  /\ Len(angles) >= 2
  /\ window_size >= 2
  /\ slice_width < window_size
  /\ Len(profiles) > 0

C6_MapOrder ==
  /\ pc = "angled" =>
       /\ Len(angles) = Len(tasks)
       /\ \A i \in 1..Len(tasks) :
            LET row == get_angle(tasks[i].x, tasks[i].y, tasks[i].position,
                                 tasks[i].contour, field, window_size, slice_width).row
            IN  /\ angles[i].x = row.x
                /\ angles[i].y = row.y
                /\ angles[i].position = row.position
                /\ angles[i].contour = row.contour
                /\ angles[i].angle = row.angle
                /\ angles[i].x_offset = row.x_offset
                /\ angles[i].y_offset = row.y_offset
  /\ pc = "done" =>
       \A i \in 1..Len(tasks), j \in 1..Len(profiles) :
         profiles[j].window = i - 1 =>
           profiles[j].intensity =
             profile_of(tasks[i]).v[<<profiles[j].radial_position, profiles[j].stain>>]

\* C6 witness: the profiling stage has returned although the workers
\* finished the tasks of different points out of input order
C6_Witness ==
  /\ pc = "done"
  /\ Len(order) >= 2
  /\ order[1] > order[2]
  /\ <<tasks[1].x, tasks[1].y>> # <<tasks[2].x, tasks[2].y>>

\* C7: calculate_angles with sample_rate s on a contour table of N points
\* yields one Angle Record for each of the rows 0, s, 2s, ... by position, in
\* input order, with window_index 0, 1, ..., count-1; 10 records for
\* N = 1000 and s = 100.
C7_Subsample ==
  /\ angles # <<>> =>
       /\ Len(angles) = Cardinality({k \in 0..(Len(contours) - 1) : k % sample_rate = 0})
       /\ \A i \in 1..Len(angles) :
            LET c == contours[(i - 1) * sample_rate + 1]
            IN  /\ angles[i].x = c.x
                /\ angles[i].y = c.y
                /\ angles[i].position = c.position
                /\ angles[i].contour = c.contour
                /\ angles[i].window = i - 1
  /\ Len(iloc_step([k \in 1..1000 |-> k], 100)) = 10

\* C7 witness: a contour table of three points subsampled with rate 2 into
\* two Angle Records
C7_Witness ==
  /\ pc = "angled"
  /\ Len(contours) = 3
  /\ sample_rate = 2
  /\ Len(angles) = 2

\* C10 (as claimed): a stage given no contour or zero points returns an
\* empty table and does not raise.
C10_EmptyTolerated == traced = <<>> => err = "none"

(***************************************************************************)
(* Properties of get_contour (SpecContour)                                 *)
(***************************************************************************)
\* the rows of the returned table that belong to contour k, in table order
rows_of(k) == SelectSeq(contours, LAMBDA r : r.contour = k)

\* the integer-rounded coordinate <<y, x>> of a traced point
rounded(p) == <<np_round(p.y2), np_round(p.x2)>>

\* the first index of the traced contour tr whose point rounds to yx
first_at(tr, yx) ==
  CHOOSE i \in 1..Len(tr) :
    /\ rounded(tr[i]) = yx
    /\ \A j \in 1..(i - 1) : rounded(tr[j]) # yx

\* C8 (as claimed): each retained point's position is its index within its
\* contour after deduplication: 0, 1, ..., k-1.
C8_PositionDense ==
  pc = "contoured" =>
    \A k \in 0..(Len(traced) - 1) :
      \A i \in 1..Len(rows_of(k)) : rows_of(k)[i].position = i - 1

\* C9: within one contour_id no integer-rounded (x, y) occurs twice; every
\* rounded coordinate of the traced contour is kept once, and the kept
\* points stand in the order of their first occurrence along the traced path.
C9_Deduplicated ==
  pc = "contoured" =>
    /\ \A r \in 1..Len(contours) : contours[r].contour \in 0..(Len(traced) - 1)
    /\ \A k \in 0..(Len(traced) - 1) :
         LET rows == rows_of(k)
             tr   == traced[k + 1]
             yx(i) == <<rows[i].y, rows[i].x>>
         IN  /\ \A i, j \in 1..Len(rows) : i # j => yx(i) # yx(j)
             /\ {yx(i) : i \in 1..Len(rows)} = {rounded(tr[i]) : i \in 1..Len(tr)}
             /\ \A i, j \in 1..Len(rows) :
                  i < j => first_at(tr, yx(i)) < first_at(tr, yx(j))

\* C9 witness: a traced contour that comes back to a coordinate it has left
\* (a duplicate that is not adjacent): two rows are kept of three points
C9_Witness ==
  /\ pc = "contoured"
  /\ Len(traced) = 1
  /\ Len(traced[1]) = 3
  /\ rounded(traced[1][1]) = rounded(traced[1][3])
  /\ rounded(traced[1][1]) # rounded(traced[1][2])
  /\ Len(rows_of(0)) = 2

(***************************************************************************)
(* rotate_slices: the shared image-stack buffer                            *)
(***************************************************************************)
\* C11: the shared buffer is written by the parent alone and before the pool
\* starts: the one step that changes it is the copy of the stack made on the
\* way into the pool, and from then until the pool is closed no step of a
\* worker or of the parent changes it, so that every task, whichever worker
\* runs it and whenever, reads the contents of the stack
C11_BufferReadOnly ==
  [][/\ shared' # shared => pc = "angled" /\ pc' = "slice_pool"
     /\ pc = "slice_pool" => shared' = shared /\ shared = stack]_vars

\* the pool of rotate_slices is open on a stack with data: one task has
\* handed its profile back, another is running on a worker
C11_Witness ==
  /\ pc = "slice_pool"
  /\ DOMAIN done # {}
  /\ \E p \in Workers : running[p] # 0
  /\ \E c \in DOMAIN shared.v : shared.v[c] # 0
  /\ shared = stack

(***************************************************************************)
(* A task of a parallel map raises (SpecMap)                               *)
(***************************************************************************)
\* C12: when a task of a stage's map has raised, the stage does not return:
\* the run is still in the pool of that stage or has failed in that stage,
\* and a failed stage has handed no table back, whatever the other tasks
\* of the map returned
C12_NoPartialResult ==
  (\E i \in DOMAIN done : ~done[i].ok) =>
     /\ pc \in {"angle_pool", "slice_pool", "raised"}
     /\ pc = "raised" =>
          \/ err = "calculate_angles" /\ angles = <<>>
          \/ err = "rotate_slices" /\ profiles = <<>>

\* calculate_angles has failed on a map in which one task raised and
\* another returned its Angle Record
C12_Witness ==
  /\ pc = "raised"
  /\ err = "calculate_angles"
  /\ \E i \in DOMAIN done : ~done[i].ok
  /\ \E i \in DOMAIN done : done[i].ok
  /\ angles = <<>>

(***************************************************************************)
(* The score of assess_rotation (SpecCrop)                                 *)
(***************************************************************************)
\* the sum of the cells of a in the given rows and columns
window_sum(a, rows, cols) ==
  sum_over(a.v, {c \in DOMAIN a.v : c[1] \in rows /\ c[2] \in cols})

\* the columns [window_size - round(slice_width / scale_x),
\* window_size + round(slice_width / scale_x))
probe_cols ==
  (window_size - py_round(slice_width, scale_x))
    ..(window_size + py_round(slice_width, scale_x) - 1)

\* C13 as amended: for every candidate angle the score of the padded buffer
\* get_angle built is the negated sum of the rotated buffer over the rows
\* [window_size, window_size + round(window_size / scale_y)) and the columns
\* [window_size - round(slice_width / scale_x),
\* window_size + round(slice_width / scale_x))
C13_Score ==
  padded # NoArray =>
    \A angle \in Angles :
      assess_rotation(angle, padded, window_size, slice_width)
        = 0 - window_sum(rotate2(padded, angle),
                         window_size..(window_size + py_round(window_size, scale_y) - 1),
                         probe_cols)

\* C13 as stated: the rows of the sum are
\* [window_size, window_size + round(window_size / scale_y) + window_size)
C13_ScoreAsClaimed ==
  padded # NoArray =>
    \A angle \in Angles :
      assess_rotation(angle, padded, window_size, slice_width)
        = 0 - window_sum(rotate2(padded, angle),
                         window_size..(window_size + py_round(window_size, scale_y)
                                         + window_size - 1),
                         probe_cols)

\* get_angle has scored a buffer whose probe rectangle has rows and columns
\* and holds field values: the score is not 0 and differs between angles
C13_Witness ==
  /\ pc = "rotate_slice"
  /\ py_round(window_size, scale_y) > 0
  /\ py_round(slice_width, scale_x) > 0
  /\ assess_rotation(0, padded, window_size, slice_width) < 0
  /\ \E angle \in Angles :
       assess_rotation(angle, padded, window_size, slice_width)
         # assess_rotation(0, padded, window_size, slice_width)

(***************************************************************************)
(* retrieve_slice on one point (SpecCrop)                                  *)
(***************************************************************************)
\* the rotated local mask of the Angle Record a
local_mask_of(a) == rotate2(local_slice(a.window_size, a.slice_width), 0 - a.angle)

\* C14: for a point inside the image and a window that overhangs no edge,
\* the low edge, the high edge or both edges of an axis, the clipped local
\* mask and the destination region image[y - w + y_min : y + w,
\* x - w + x_min : x + w] have the same shape and the placement does not
\* raise; the result has the shape of the image and values 0 and 1, and
\* image pixel (i, j) is 1 exactly when the local cell
\* (i - y + w, j - x + w) exists and is set in the rotated local mask, so
\* that local cell (r, c) lands on pixel (y - w + r, x - w + c) and every
\* pixel outside the window is 0
C14_SlicePlaced ==
  /\ err # "retrieve_slice"
  /\ pc = "retrieved" =>
       LET a    == angles[1]
           w    == a.window_size
           m    == local_mask_of(a)
           rows == slice_bounds(field.nr, a.y - w + y_min(a.y, w), a.y + w)
           cols == slice_bounds(field.nc, a.x - w + x_min(a.x, w), a.x + w)
       IN  /\ y_max(a.y, w, m.nr, field.nr) - y_min(a.y, w) = rows[2] - rows[1]
           /\ x_max(a.x, w, m.nc, field.nc) - x_min(a.x, w) = cols[2] - cols[1]
           /\ slice_positioned.nr = field.nr
           /\ slice_positioned.nc = field.nc
           /\ DOMAIN slice_positioned.v = DOMAIN field.v
           /\ \A p \in DOMAIN slice_positioned.v :
                LET r == p[1] - a.y + w
                    c == p[2] - a.x + w
                IN  slice_positioned.v[p]
                      = IF in_bounds(m, r, c) /\ m.v[<<r, c>>] > 0 THEN 1 ELSE 0

\* retrieve_slice has placed a window that overhangs both edges of the
\* x axis and both edges of the y axis; the result has a pixel inside the
\* slice and a pixel outside it
C14_Witness ==
  /\ pc = "retrieved"
  /\ LET a == angles[1]
     IN  /\ a.x - a.window_size < 0
         /\ a.x + a.window_size > field.nc
         /\ a.y - a.window_size < 0
         /\ a.y + a.window_size > field.nr
  /\ \E p \in DOMAIN slice_positioned.v : slice_positioned.v[p] = 1
  /\ \E p \in DOMAIN slice_positioned.v : slice_positioned.v[p] = 0

====
